---- MODULE Spec2Model ----
(***************************************************************************)
(* Model of commentator.py: the per-function annotation loop `commentate`  *)
(* and the syntax-tree helpers it is built from.                           *)
(*                                                                         *)
(* Source text is represented by the outcome of ast.parse on it: a record  *)
(* [ok, body] where ok = FALSE stands for text on which ast.parse raises   *)
(* SyntaxError, and body is the statement list of the ast.Module.          *)
(* ast.unparse is modelled by Unparse, which serialises a tree to a        *)
(* sequence of tokens; comparisons of unparsed text compare token          *)
(* sequences.                                                              *)
(***************************************************************************)
EXTENDS Integers, Sequences, FiniteSets, TLC

(***************************************************************************)
(* Syntax trees.  Every node is a record with a `type` field named after   *)
(* the ast class.  `args` of a function node models node.args.args and     *)
(* `kwonlyargs` models node.args.kwonlyargs.                               *)
(***************************************************************************)
None == "None"

FunctionTypes == {"FunctionDef", "AsyncFunctionDef"}

Arg(name, ann) == [arg |-> name, annotation |-> ann]

Def(ty, name, args, kwonly, returns, body, decos) ==
    [type |-> ty, name |-> name, args |-> args, kwonlyargs |-> kwonly,
     returns |-> returns, body |-> body, decorator_list |-> decos]

Str(s) == [type |-> "Expr", value |-> [type |-> "Str", s |-> s]]

NameExpr(id) == [type |-> "Expr", value |-> [type |-> "Name", id |-> id]]

Return(e) == [type |-> "Return", value |-> e]

AnnAssign(target, ann, e) ==
    [type |-> "AnnAssign", target |-> target, annotation |-> ann, value |-> e]

Assign(target, e) == [type |-> "Assign", target |-> target, value |-> e]

Import(name) == [type |-> "Import", name |-> name]

If(test, body) == [type |-> "If", test |-> test, body |-> body]

ClassDef(name, body) == [type |-> "ClassDef", name |-> name, body |-> body]

Module(body) == [type |-> "Module", body |-> body]

\* Source text that parses to the statement list `body`.
Source(body) == [ok |-> TRUE, body |-> body]

\* Source text on which ast.parse raises SyntaxError.
Unparsable == [ok |-> FALSE, body |-> <<>>]

IsFunction(node) == node.type \in FunctionTypes

IsStrExpr(node) == node.type = "Expr" /\ node.value.type = "Str"

\* ast.iter_child_nodes restricted to statement nodes.
Children(node) == IF "body" \in DOMAIN node THEN node.body ELSE <<>>

\* ast.walk: breadth-first, children queued when their parent is visited.
RECURSIVE Walk(_)
Walk(todo) ==
    IF todo = <<>> THEN <<>>
    ELSE <<Head(todo)>> \o Walk(Tail(todo) \o Children(Head(todo)))

\* The least of a set of positions, 0 when there is none.
First(positions) ==
    IF positions = {} THEN 0
    ELSE CHOOSE i \in positions : \A j \in positions : i <= j

\* Position in `nodes` of the first function definition, 0 when there is none.
FirstFunction(nodes) == First({i \in DOMAIN nodes : IsFunction(nodes[i])})

(***************************************************************************)
(* ast.unparse as a token sequence.  Visiting an AnnAssign whose           *)
(* annotation attribute was deleted raises AttributeError.                 *)
(***************************************************************************)
RECURSIVE UnparseRaises(_)
UnparseRaises(node) ==
    \/ node.type = "AnnAssign" /\ "annotation" \notin DOMAIN node
    \/ \E i \in DOMAIN Children(node) : UnparseRaises(Children(node)[i])

UnparseArg(a) ==
    IF a.annotation = None THEN <<a.arg, ",">>
    ELSE <<a.arg, ":", a.annotation, ",">>

RECURSIVE UnparseArgs(_)
UnparseArgs(args) ==
    IF args = <<>> THEN <<>>
    ELSE UnparseArg(Head(args)) \o UnparseArgs(Tail(args))

RECURSIVE UnparseDecorators(_)
UnparseDecorators(decos) ==
    IF decos = <<>> THEN <<>>
    ELSE <<"@", Head(decos)>> \o UnparseDecorators(Tail(decos))

RECURSIVE Unparse(_)
RECURSIVE UnparseBlock(_)
UnparseBlock(stmts) ==
    IF stmts = <<>> THEN <<>>
    ELSE Unparse(Head(stmts)) \o UnparseBlock(Tail(stmts))

Unparse(node) ==
    CASE node.type = "Module" -> UnparseBlock(node.body)
      [] IsFunction(node) ->
            UnparseDecorators(node.decorator_list)
            \o <<(IF node.type = "FunctionDef" THEN "def" ELSE "async def"),
                 node.name, "(">>
            \o UnparseArgs(node.args)
            \o (IF node.kwonlyargs = <<>> THEN <<>>
                ELSE <<"*", ",">> \o UnparseArgs(node.kwonlyargs))
            \o <<")">>
            \o (IF node.returns = None THEN <<>> ELSE <<"->", node.returns>>)
            \o <<":", "INDENT">> \o UnparseBlock(node.body) \o <<"DEDENT">>
      [] node.type = "ClassDef" ->
            <<"class", node.name, ":", "INDENT">>
            \o UnparseBlock(node.body) \o <<"DEDENT">>
      [] node.type = "If" ->
            <<"if", node.test, ":", "INDENT">>
            \o UnparseBlock(node.body) \o <<"DEDENT">>
      [] node.type = "Expr" ->
            IF node.value.type = "Str" THEN <<"STRING", node.value.s, "NEWLINE">>
            ELSE <<node.value.id, "NEWLINE">>
      [] node.type = "Return" -> <<"return", node.value, "NEWLINE">>
      [] node.type = "AnnAssign" ->
            <<node.target, ":", node.annotation, "=", node.value, "NEWLINE">>
      [] node.type = "Assign" -> <<node.target, "=", node.value, "NEWLINE">>
      [] node.type = "Import" -> <<"import", node.name, "NEWLINE">>


(***************************************************************************)
(* The helpers of commentator.py.                                          *)
(***************************************************************************)
\* A Python exception leaving an operation, or its value.
Raise(e) == [exc |-> e]

Value(v) == [exc |-> None, val |-> v]

get_language_from_file_name(file_name) ==
    IF file_name = "py" THEN "Python" ELSE ""

\* The text from the line of the first function definition that ast.walk
\* finds.  A definition nested in a class or a block starts on an indented
\* line, and the text cut there no longer parses (IndentationError).  The
\* decorator lines of a definition precede its `def` line and are cut off.
remove_code_before_function(code) ==
    LET nodes == Walk(<<Module(code.body)>>)
        i == FirstFunction(nodes)
        k == FirstFunction(code.body)
    IN  IF i = 0 THEN code
        ELSE IF k = 0 THEN Unparsable
        ELSE Source(<<[code.body[k] EXCEPT !.decorator_list = <<>>]>>
                    \o SubSeq(code.body, k + 1, Len(code.body)))

remove_annotations(node) ==
    IF node.type = "AnnAssign"
    THEN [f \in DOMAIN node \ {"annotation"} |-> node[f]]
    ELSE IF IsFunction(node)
    THEN [node EXCEPT !.args = [i \in DOMAIN node.args |->
                                   [node.args[i] EXCEPT !.annotation = None]],
                      !.returns = None]
    ELSE node

remove_comments(node) ==
    IF node.type \in FunctionTypes \cup {"ClassDef", "Module"}
    THEN [node EXCEPT !.body = SelectSeq(node.body, LAMBDA n : ~IsStrExpr(n))]
    ELSE IF IsStrExpr(node)
    THEN [node EXCEPT !.value.s = ""]
    ELSE node

\* The two loops of compare_python_code: remove_comments and
\* remove_annotations applied to every node that ast.walk yields.  The tree
\* is changed in place, so what remains of a node's body is changed in turn.
RECURSIVE walk_remove(_)
walk_remove(node) ==
    LET n == remove_annotations(remove_comments(node))
    IN  IF "body" \in DOMAIN n
        THEN [n EXCEPT !.body = [i \in DOMAIN n.body |-> walk_remove(n.body[i])]]
        ELSE n

\* Mutant of compare_python_code: the comparison of line 129 inverted.
compare_python_code_inverted(code1, code2) ==
    IF ~code1.ok \/ ~code2.ok THEN Raise("SyntaxError")
    ELSE LET tree1 == walk_remove(Module(code1.body))
             tree2 == walk_remove(Module(code2.body))
         IN  IF UnparseRaises(tree1) \/ UnparseRaises(tree2)
             THEN Value(FALSE)
             ELSE Value(Unparse(tree1) # Unparse(tree2))

compare_python_code(code1, code2) ==
    IF ~code1.ok \/ ~code2.ok THEN Raise("SyntaxError")
    ELSE LET tree1 == walk_remove(Module(code1.body))
             tree2 == walk_remove(Module(code2.body))
         IN  IF UnparseRaises(tree1) \/ UnparseRaises(tree2)
             THEN Value(FALSE)
             ELSE Value(Unparse(tree1) = Unparse(tree2))

\* Mutant of has_types: the test on the return annotation inverted.
has_types_no_returns(func_code) ==
    LET nodes == Walk(<<Module(func_code.body)>>)
        i == FirstFunction(nodes)
    IN  IF i = 0 THEN FALSE
        ELSE /\ \A j \in DOMAIN nodes[i].args : nodes[i].args[j].annotation # None
             /\ nodes[i].returns = None

has_types(func_code) ==
    LET nodes == Walk(<<Module(func_code.body)>>)
        i == FirstFunction(nodes)
    IN  IF i = 0 THEN FALSE
        ELSE /\ \A j \in DOMAIN nodes[i].args : nodes[i].args[j].annotation # None
             /\ nodes[i].returns # None

has_docstring(func_code) ==
    LET nodes == Walk(<<Module(func_code.body)>>)
        i == First({j \in DOMAIN nodes : /\ IsFunction(nodes[j])
                                          /\ nodes[j].body # <<>>
                                          /\ IsStrExpr(nodes[j].body[1])})
    IN  IF i = 0 THEN FALSE
        ELSE nodes[i].body[1].value.s # ""

\* Position in the module body of the first top-level function of that name.
function_index(program, function_name) ==
    First({i \in DOMAIN program.body :
             /\ IsFunction(program.body[i])
             /\ program.body[i].name = function_name})

extract_function_ast(program, function_name) ==
    LET k == function_index(program, function_name)
    IN  IF k = 0 THEN Raise("ValueError") ELSE Value(program.body[k])

extract_function_source(program, function_name) ==
    Source(<<extract_function_ast(program, function_name).val>>)

RECURSIVE enumerate_functions(_)
enumerate_functions(body) ==
    IF body = <<>> THEN <<>>
    ELSE (IF IsFunction(Head(body)) THEN <<Head(body).name>> ELSE <<>>)
         \o enumerate_functions(Tail(body))

\* Mutant of update_args: a parameter the old function has keeps the old
\* annotation (old_arg of line 62 is used for the new node).
update_args_old_arg(old_function_ast, new_function_ast) ==
    LET old_args == old_function_ast.args
        new_args == [i \in DOMAIN new_function_ast.args |->
                       LET arg == new_function_ast.args[i]
                           at == {j \in DOMAIN old_args : old_args[j].arg = arg.arg}
                       IN  IF at # {}
                           THEN Arg(arg.arg, old_args[First(at)].annotation)
                           ELSE arg]
    IN  [old_function_ast EXCEPT !.args = new_args]

update_args(old_function_ast, new_function_ast) ==
    LET arg_names == {old_function_ast.args[i].arg :
                        i \in DOMAIN old_function_ast.args}
        new_args == [i \in DOMAIN new_function_ast.args |->
                       LET arg == new_function_ast.args[i]
                       IN  IF arg.arg \in arg_names
                           THEN Arg(arg.arg, arg.annotation)
                           ELSE arg]
    IN  [old_function_ast EXCEPT !.args = new_args]

\* Mutant of replace_function: the function node is unparsed instead of the
\* whole program.
replace_function_node_only(program, function_name, new_function) ==
    LET k == function_index(program, function_name)
        new == extract_function_ast(new_function, function_name)
    IN  IF k = 0 THEN Raise("ValueError")
        ELSE IF ~new_function.ok THEN Raise("SyntaxError")
        ELSE IF new.exc # None THEN new
        ELSE LET function_node ==
                   [program.body[k] EXCEPT !.body = new.val.body,
                                           !.returns = new.val.returns]
             IN  Value(Source(<<update_args(function_node, new.val)>>))

replace_function(program, function_name, new_function) ==
    LET k == function_index(program, function_name)
        new == extract_function_ast(new_function, function_name)
    IN  IF k = 0 THEN Raise("ValueError")
        ELSE IF ~new_function.ok THEN Raise("SyntaxError")
        ELSE IF new.exc # None THEN new
        ELSE LET function_node ==
                   [program.body[k] EXCEPT !.body = new.val.body,
                                           !.returns = new.val.returns]
             IN  Value(Source([program.body EXCEPT
                                 ![k] = update_args(function_node, new.val)]))


(***************************************************************************)
(* The generation backend and the raw response.                            *)
(*                                                                         *)
(* A response is an openai exception or a completion whose message content *)
(* is a text.  A text is either blank (only empty lines) or has            *)
(*   lead   - the number of empty lines before its first non-empty line,   *)
(*   fence  - how that line opens: "none", "bare" (```) or "lang"          *)
(*            (```python),                                                 *)
(*   closed - whether a closing ``` follows,                               *)
(*   inner  - the source text between the fences (the whole text when      *)
(*            there is no fence).                                          *)
(***************************************************************************)
NoCompletion == [kind |-> "None"]

Completion(text) == [kind |-> "Completion", content |-> text]

BlankText == [blank |-> TRUE]

Text(lead, fence, closed, inner) ==
    [blank |-> FALSE, lead |-> lead, fence |-> fence, closed |-> closed,
     inner |-> inner]

\* Mutant of get_comments: the authentication error is swallowed like a
\* server-side error instead of ending the process.
get_comments_swallow(response) ==
    IF response.kind \in {"AuthenticationError", "APIError"}
    THEN Value(NoCompletion)
    ELSE Value(Completion(response.text))

get_comments(response) ==
    IF response.kind = "AuthenticationError" THEN Raise("SystemExit")
    ELSE IF response.kind = "APIError" THEN Value(NoCompletion)
    ELSE Value(Completion(response.text))

find_code_start(text) ==
    IF text.blank THEN Raise("IndexError")
    ELSE IF text.fence = "bare" THEN Value(3)
    ELSE IF text.fence = "lang" THEN Value(Len("python") + 3)
    ELSE Value(-1)

\* text.find('```', first_index + 1): -1 when no fence follows.
second_index_found(text) == text.fence # "none" /\ text.closed

\* Lines 329-333 of commentate.  The slice starts first_index characters into
\* the text although the fence starts after the leading empty lines, so with
\* one leading empty line the last character of the fence line stays in the
\* block: the `n` of ```python, an expression statement, or a backquote of
\* ```, which is no Python.
code_block_of(text, first_index) ==
    IF first_index = -1 \/ ~second_index_found(text)
    THEN (IF text.fence = "none" THEN text.inner ELSE Unparsable)
    ELSE IF text.lead = 0 THEN text.inner
    ELSE IF text.fence = "lang" /\ text.inner.ok
    THEN Source(<<NameExpr("n")>> \o text.inner.body)
    ELSE Unparsable

(***************************************************************************)
(* One pass through the body of the while loop of commentate after the     *)
(* already-complete test, lines 324-356: the request, the unwrapping and   *)
(* the validation of the candidate, and the splice.                        *)
(* The result tells whether an exception left commentate (exc), the        *)
(* working file afterwards (code), and whether the loop was left by the    *)
(* break of line 356 (accepted).                                           *)
(***************************************************************************)
Outcome(exc, code, accepted) == [exc |-> exc, code |-> code, accepted |-> accepted]

\* Lines 334-356, from the parse of the code block on.
validate_and_splice(file_name, code, func_name, the_code, code_block) ==
    IF get_language_from_file_name(file_name) # "Python"
    THEN Outcome("UnboundLocalError", code, FALSE)
    ELSE IF ~code_block.ok
    THEN Outcome(None, code, FALSE)
    ELSE LET cmp == compare_python_code(remove_code_before_function(the_code),
                                        remove_code_before_function(code_block))
         IN  IF cmp.exc # None THEN Outcome("IndentationError", code, FALSE)
             ELSE IF ~cmp.val THEN Outcome(None, code, FALSE)
             ELSE IF ~has_types(code_block) THEN Outcome(None, code, FALSE)
             ELSE LET new == replace_function(code, func_name, code_block)
                  IN  IF new.exc # None THEN Outcome(new.exc, code, FALSE)
                      ELSE Outcome(None, new.val, TRUE)

attempt(file_name, code, func_name, response) ==
    LET the_code == extract_function_source(code, func_name)
        completion == get_comments(response)
    IN  IF completion.exc # None THEN Outcome(completion.exc, code, FALSE)
        ELSE IF completion.val.kind = "None" THEN Outcome("TypeError", code, FALSE)
        ELSE LET text == completion.val.content
                 first_index == find_code_start(text)
             IN  IF first_index.exc # None
                 THEN Outcome(first_index.exc, code, FALSE)
                 ELSE validate_and_splice(file_name, code, func_name, the_code,
                                          code_block_of(text, first_index.val))


(***************************************************************************)
(* Bounded inputs of the annotation loop.                                  *)
(***************************************************************************)
\* Longest input file, in top-level statements.
MaxItems == 2

max_tries == 3

Names == {"f", "g"}

Annotations == {None, "int"}

\* Function bodies of the input files and of the candidates.
Bodies ==
    { <<Return("a")>>,
      <<Str("doc"), Return("a")>>,
      <<Str(""), Return("a")>>,
      <<Str("doc"), Return("-a")>>,
      <<AnnAssign("x", "int", "1"), Return("a")>>,
      <<Str("doc"), AnnAssign("x", "int", "1"), Return("a")>>,
      <<Str("doc"), Return("a"), Str("note")>> }

ArgLists ==
    { <<Arg("a", None)>>, <<Arg("a", "int")>>, <<Arg("b", "int")>> }

Fragments ==
    { Def("FunctionDef", name, args, <<>>, returns, body, <<>>) :
        name \in Names, args \in ArgLists, returns \in Annotations,
        body \in Bodies }

\* Top-level statements of the input files.
Items ==
    { Def("FunctionDef", "f", <<Arg("a", None)>>, <<>>, None,
          <<Return("a")>>, <<>>),
      Def("FunctionDef", "g", <<Arg("a", None)>>, <<>>, None,
          <<Str("doc"), Return("a")>>, <<"dec">>),
      Def("FunctionDef", "g", <<Arg("a", "int")>>, <<>>, "int",
          <<Str("doc"), Return("a")>>, <<>>),
      Def("FunctionDef", "f", <<Arg("a", None)>>, <<>>, None,
          <<AnnAssign("x", "int", "1"), Return("a")>>, <<>>),
      Assign("x", "1") }

Files ==
    { Source(body) : body \in UNION { [1..n -> Items] : n \in 1..MaxItems } }

FileNames == {"py", "txt"}

\* A complete rewrite of a one-parameter function `name` whose body returns
\* its parameter.
Good(name) ==
    Def("FunctionDef", name, <<Arg("a", "int")>>, <<>>, "int",
        <<Str("doc"), Return("a")>>, <<>>)

\* Candidate texts that hold more, or less, than one function definition.
OtherInners ==
    { Unparsable, Source(<<Assign("x", "1")>>) }
    \cup UNION { { Source(<<ClassDef("C", <<Good(name)>>)>>),
                   Source(<<Import("os"), Good(name)>>),
                   Source(<<Good(name), Assign("x", "1")>>),
                   Source(<<Good(name), Str("note")>>),
                   Source(<<[Good(name) EXCEPT !.decorator_list = <<"other">>]>>),
                   Source(<<[Good(name) EXCEPT
                               !.args = <<Arg("a", "int"), Arg("b", "int")>>]>>),
                   Source(<<[Good(name) EXCEPT !.type = "AsyncFunctionDef"]>>) }
                 : name \in Names }

Texts ==
    { BlankText }
    \cup { Text(0, "none", FALSE, Source(<<fn>>)) : fn \in Fragments }
    \cup { Text(0, "none", FALSE, inner) : inner \in OtherInners }
    \cup { Text(lead, fence, TRUE, Source(<<Good(name)>>)) :
             lead \in {0, 1}, fence \in {"bare", "lang"}, name \in Names }
    \cup { Text(0, "lang", FALSE, Source(<<Good(name)>>)) : name \in Names }

Responses ==
    { [kind |-> "AuthenticationError"], [kind |-> "APIError"] }
    \cup { [kind |-> "text", text |-> text] : text \in Texts }

(***************************************************************************)
(* The vocabulary of the design: the completeness predicates on a          *)
(* function's own definition and the erasure of documentation strings and  *)
(* type annotations.                                                       *)
(***************************************************************************)
HasDocumentation(fn) ==
    fn.body # <<>> /\ IsStrExpr(fn.body[1]) /\ fn.body[1].value.s # ""

IsFullyTyped(fn) ==
    /\ \A i \in DOMAIN fn.args : fn.args[i].annotation # None
    /\ \A i \in DOMAIN fn.kwonlyargs : fn.kwonlyargs[i].annotation # None
    /\ fn.returns # None

ClearAnnotations(args) ==
    [i \in DOMAIN args |-> [args[i] EXCEPT !.annotation = None]]

\* Erasure: bare string statements of function, class and module bodies are
\* dropped, the others are emptied; every parameter, return and assignment
\* annotation is cleared.
RECURSIVE Erase(_)
Erase(node) ==
    LET kept == IF node.type \in FunctionTypes \cup {"ClassDef", "Module"}
                THEN SelectSeq(node.body, LAMBDA n : ~IsStrExpr(n))
                ELSE Children(node)
        body == [i \in DOMAIN kept |-> Erase(kept[i])]
    IN  IF IsFunction(node)
        THEN [node EXCEPT !.body = body, !.returns = None,
                          !.args = ClearAnnotations(node.args),
                          !.kwonlyargs = ClearAnnotations(node.kwonlyargs)]
        ELSE IF "body" \in DOMAIN node THEN [node EXCEPT !.body = body]
        ELSE IF node.type = "AnnAssign" THEN [node EXCEPT !.annotation = None]
        ELSE IF IsStrExpr(node) THEN [node EXCEPT !.value.s = ""]
        ELSE node

(***************************************************************************)
(* State of a run of commentate(filename, code).                           *)
(***************************************************************************)
VARIABLES
    filename,   \* the extension of the file name
    code,       \* the working file
    fi,         \* position of the for loop in enumerate_functions(code)
    tries,      \* attempts made on the current function
    pc,         \* "for", "while", "request", "returned" or "raised"
    exc,        \* the exception that left commentate, None if none
    result,     \* the value commentate returned, NoResult until it returns
    code0,      \* history: the input file
    begin,      \* history: the working file when the current function began
    status,     \* history: how each enumerated function was resolved
    reqs,       \* history: generation requests issued for each function
    last,       \* history: the last request made for the current function
    fnA, fnB, fnOp, fnOut   \* a single call of a helper (specification SpecFn)

vars == <<filename, code, fi, tries, pc, exc, result, code0, begin, status,
          reqs, last, fnA, fnB, fnOp, fnOut>>

driver == <<filename, code, fi, tries, pc, exc, result, code0, begin, status,
            reqs, last>>

unit == <<fnA, fnB, fnOp, fnOut>>

NoResult == [ok |-> FALSE, body |-> <<"no result">>]

NoNode == [type |-> "None"]

NoRequest ==
    [kind |-> "none", blank |-> FALSE, accepted |-> FALSE, orig |-> NoNode,
     donor |-> NoNode]

\* enumerate_functions(code) of line 314, evaluated once on the input file.
funcs == enumerate_functions(code0.body)

func_name == funcs[fi]

Init ==
    /\ filename \in FileNames
    /\ code \in Files
    /\ code0 = code
    /\ begin = code
    /\ fi = 1
    /\ tries = 0
    /\ pc = "for"
    /\ exc = None
    /\ result = NoResult
    /\ status = [i \in DOMAIN funcs |-> "PENDING"]
    /\ reqs = [i \in DOMAIN funcs |-> 0]
    /\ last = NoRequest
    /\ fnA = NoNode /\ fnB = NoNode /\ fnOp = "off" /\ fnOut = NoNode

\* Line 314-315: the next function name, with a fresh attempt counter.
ForLoop ==
    /\ pc = "for" /\ fi <= Len(funcs)
    /\ tries' = 0
    /\ begin' = code
    /\ last' = NoRequest
    /\ pc' = "while"
    /\ UNCHANGED <<filename, code, fi, exc, result, code0, status, reqs, unit>>

\* Line 357: the names are used up.
ReturnCode ==
    /\ pc = "for" /\ fi > Len(funcs)
    /\ result' = code
    /\ pc' = "returned"
    /\ UNCHANGED <<filename, code, fi, tries, exc, code0, begin, status, reqs,
                   last, unit>>

\* Lines 316-322: the function already has a docstring and types.
AlreadyComplete ==
    /\ pc = "while" /\ tries < max_tries
    /\ LET the_code == extract_function_source(code, func_name)
       IN  has_docstring(the_code) /\ has_types(the_code)
    /\ tries' = tries + 1
    /\ status' = [status EXCEPT ![fi] = "SKIPPED"]
    /\ fi' = fi + 1
    /\ pc' = "for"
    /\ UNCHANGED <<filename, code, exc, result, code0, begin, reqs, last, unit>>

\* Lines 316-324: another attempt; the request goes out.
Attempt ==
    /\ pc = "while" /\ tries < max_tries
    /\ LET the_code == extract_function_source(code, func_name)
       IN  ~(has_docstring(the_code) /\ has_types(the_code))
    /\ tries' = tries + 1
    /\ reqs' = [reqs EXCEPT ![fi] = @ + 1]
    /\ pc' = "request"
    /\ UNCHANGED <<filename, code, fi, exc, result, code0, begin, status, last, unit>>

\* Line 316: the attempts are used up.
Exhausted ==
    /\ pc = "while" /\ tries >= max_tries
    /\ status' = [status EXCEPT ![fi] = "EXHAUSTED"]
    /\ fi' = fi + 1
    /\ pc' = "for"
    /\ UNCHANGED <<filename, code, tries, exc, result, code0, begin, reqs, last, unit>>

\* What the history keeps of a request.
Record(response, out) ==
    [kind |-> response.kind,
     blank |-> response.kind = "text" /\ response.text.blank,
     accepted |-> out.accepted,
     orig |-> IF out.accepted
              THEN extract_function_ast(code, func_name).val ELSE NoNode,
     donor |-> IF out.accepted
               THEN extract_function_ast(
                        code_block_of(response.text,
                                      find_code_start(response.text).val),
                        func_name).val
               ELSE NoNode]

\* Lines 324-356: the response arrives and is unwrapped and validated.  An
\* exception leaves commentate; or the candidate is rejected and the loop test
\* comes next; or the candidate is spliced in and the break of line 356 ends
\* the function.
Request(response) ==
    /\ pc = "request"
    /\ LET out == attempt(filename, code, func_name, response)
       IN  /\ last' = Record(response, out)
           /\ code' = out.code
           /\ exc' = out.exc
           /\ pc' = IF out.exc # None THEN "raised"
                    ELSE IF out.accepted THEN "for" ELSE "while"
           /\ fi' = IF out.accepted THEN fi + 1 ELSE fi
           /\ status' = IF out.accepted
                        THEN [status EXCEPT ![fi] = "ACCEPTED"] ELSE status
    /\ UNCHANGED <<filename, tries, result, code0, begin, reqs, unit>>

Next ==
    \/ ForLoop
    \/ ReturnCode
    \/ AlreadyComplete
    \/ Attempt
    \/ Exhausted
    \/ \E response \in Responses : Request(response)

Spec == Init /\ [][Next]_vars


(***************************************************************************)
(* Single calls of the helpers on bounded arguments.                       *)
(***************************************************************************)
Nested(doc, returns) ==
    Def("FunctionDef", "h", <<>>, <<>>, returns, <<Str(doc), Return("a")>>, <<>>)

FnBodies ==
    { <<Return("a")>>,
      <<Str("doc"), Return("a")>>,
      <<Str(""), Return("a")>>,
      <<AnnAssign("x", "int", "1"), Return("a")>>,
      <<Nested("doc", None), Return("a")>>,
      <<Str("doc"), Nested("new", "int"), Return("a")>>,
      <<If("a", <<Str("why"), Return("a")>>), Return("-a")>> }

FnArgLists ==
    { <<Arg("a", None)>>, <<Arg("a", "int")>>,
      <<Arg("a", None), Arg("b", "str")>>,
      <<Arg("b", "int"), Arg("a", "int")>>,
      <<Arg("a", "int"), Arg("c", "int")>> }

FnKwonly == { <<>>, <<Arg("k", None)>>, <<Arg("k", "int")>> }

FnFragments ==
    { Def("FunctionDef", "f", args, kwonly, returns, body, <<>>) :
        args \in FnArgLists, kwonly \in FnKwonly, returns \in Annotations,
        body \in FnBodies }
    \cup { Def("AsyncFunctionDef", "f", <<Arg("a", None)>>, <<>>, None,
               <<Return("a")>>, <<"dec">>),
           Def("FunctionDef", "g", <<Arg("a", "int")>>, <<>>, "int",
               <<Str("doc"), Return("a")>>, <<>>) }

InitFn ==
    /\ fnA \in FnFragments
    /\ fnB \in FnFragments
    /\ fnOp = "ready"
    /\ fnOut = NoNode
    /\ filename = "py"
    /\ code = Source(<<>>) /\ code0 = Source(<<>>) /\ begin = Source(<<>>)
    /\ fi = 1 /\ tries = 0 /\ pc = "off" /\ exc = None /\ result = NoResult
    /\ status = <<>> /\ reqs = <<>> /\ last = NoRequest

CallCompare ==
    /\ fnOp = "ready"
    /\ fnOut' = compare_python_code(Source(<<fnA>>), Source(<<fnB>>))
    /\ fnOp' = "compare_python_code"
    /\ UNCHANGED <<fnA, fnB, driver>>

CallHasDocstring ==
    /\ fnOp = "ready"
    /\ fnOut' = Value(has_docstring(Source(<<fnA>>)))
    /\ fnOp' = "has_docstring"
    /\ UNCHANGED <<fnA, fnB, driver>>

CallHasTypes ==
    /\ fnOp = "ready"
    /\ fnOut' = Value(has_types(Source(<<fnA>>)))
    /\ fnOp' = "has_types"
    /\ UNCHANGED <<fnA, fnB, driver>>

\* replace_function on the file <<fnA, x = 1>> with the donor text fnB.
CallReplace ==
    /\ fnOp = "ready"
    /\ fnOut' = replace_function(Source(<<fnA, Assign("x", "1")>>), fnA.name,
                                 Source(<<fnB>>))
    /\ fnOp' = "replace_function"
    /\ UNCHANGED <<fnA, fnB, driver>>

NextFn ==
    \/ CallCompare
    \/ CallHasDocstring
    \/ CallHasTypes
    \/ CallReplace

SpecFn == InitFn /\ [][NextFn]_vars


(***************************************************************************)
(* Properties of a run of commentate (specification Spec).                 *)
(***************************************************************************)
Resolved == {"ACCEPTED", "EXHAUSTED", "SKIPPED"}

\* The definition of the function being processed, in the working file.
Current == extract_function_ast(code, func_name).val

Complete(fn) == HasDocumentation(fn) /\ IsFullyTyped(fn)

\* C1: at every point of the run the working file with documentation strings
\* and type annotations erased equals the input file with documentation
\* strings and type annotations erased: no splice changes a statement, an
\* expression, or the names or the order of the parameters of a function.
C1_SemanticsPreserved ==
    pc # "off" => Erase(Module(code.body)) = Erase(Module(code0.body))

\* C1 witness: the run returned a file that an accepted splice has changed.
C1_Witness ==
    /\ pc = "returned" /\ result # code0
    /\ \E i \in DOMAIN status : status[i] = "ACCEPTED"

\* C2: the working file changes only in the step that accepts a candidate
\* for the current function, and that step changes no other top-level
\* statement; a function that ends EXHAUSTED leaves the file as it was when
\* its processing began.
C2_Frame ==
    [][ /\ code' # code =>
             /\ pc = "request" /\ status'[fi] = "ACCEPTED"
             /\ Len(code'.body) = Len(code.body)
             /\ \A i \in DOMAIN code.body :
                   i # function_index(code, func_name) =>
                       code'.body[i] = code.body[i]
        /\ \A i \in DOMAIN status :
             (status'[i] = "EXHAUSTED" /\ status[i] # "EXHAUSTED") =>
                 code' = begin ]_vars

\* C2 witness: one function was accepted and changed the file, another was
\* exhausted.
C2_Witness ==
    /\ code # code0
    /\ \E i, j \in DOMAIN status :
          status[i] = "ACCEPTED" /\ status[j] = "EXHAUSTED"

\* C3: a candidate is spliced in only if it parsed, is structurally equal to
\* the original fragment, is fully typed and has documentation.
C3_AcceptanceGate ==
    last.accepted =>
        /\ compare_python_code(
               remove_code_before_function(Source(<<last.orig>>)),
               remove_code_before_function(Source(<<last.donor>>))) = Value(TRUE)
        /\ IsFullyTyped(last.donor)
        /\ HasDocumentation(last.donor)

\* C4: a transient backend failure is an empty candidate: the run does not
\* crash, the function goes back to the loop test and one attempt is used.
C4_TransientIsRetried ==
    last.kind = "APIError" =>
        /\ exc = None
        /\ pc = "while"
        /\ reqs[fi] = tries

\* C5: a fatal backend failure ends the run at that request: the process
\* exits, nothing more happens (no retry, no further request, no further
\* function), and commentate returns nothing.
C5_FatalAborts ==
    last.kind = "AuthenticationError" =>
        /\ pc = "raised" /\ exc = "SystemExit"
        /\ result = NoResult
        /\ \A j \in DOMAIN status :
              /\ j >= fi => status[j] = "PENDING"
              /\ j > fi => reqs[j] = 0
        /\ ~ENABLED Next

\* C5 witness: the fatal failure comes after an earlier splice was accepted.
C5_Witness ==
    /\ last.kind = "AuthenticationError"
    /\ code # code0
    /\ \E i \in DOMAIN status : status[i] = "ACCEPTED"

\* C6: at most max_tries requests per function; a run on a Python file in
\* which every request returns candidate text ends with commentate
\* returning, every function resolved.
C6_BoundedRetry ==
    /\ \A i \in DOMAIN reqs : reqs[i] <= max_tries
    /\ (filename = "py" /\ last.kind = "text" /\ ~last.blank) => exc = None
    /\ pc = "returned" => \A i \in DOMAIN status : status[i] \in Resolved

\* C7: a function that has documentation and is fully typed when its turn
\* comes gets no generation request and leaves the file unchanged; a request
\* is issued only for a function that lacks documentation or full typing.
C7_SkipComplete ==
    [][ /\ (pc = "while" /\ Complete(Current)) =>
               /\ reqs' = reqs /\ code' = code
               /\ pc' = "for" /\ status'[fi] = "SKIPPED"
        /\ reqs' # reqs => (pc = "while" /\ ~Complete(Current)) ]_vars

\* C7 witness: a complete function was skipped without a request.
C7_Witness ==
    \E i \in DOMAIN status :
        /\ status[i] = "SKIPPED" /\ reqs[i] = 0
        /\ Complete(extract_function_ast(code, funcs[i]).val)

(***************************************************************************)
(* Properties of the helpers (specification SpecFn).                       *)
(***************************************************************************)
\* C8: two fragments that differ only in documentation text and type
\* annotations (on parameters, on the return position, on annotated
\* assignments) compare equal.
C8_EqualModuloDocsAndTypes ==
    (fnOp = "compare_python_code" /\ Erase(fnA) = Erase(fnB)) =>
        fnOut = Value(TRUE)

\* The parameter list the design describes: the host's parameters in the
\* host's order, each with the donor's annotation when the donor has a
\* parameter of that name, followed by the parameters only the donor has.
MergedArgs(host, donor) ==
    LET at(name) == {j \in DOMAIN donor : donor[j].arg = name}
        host_names == {host[i].arg : i \in DOMAIN host}
    IN  [i \in DOMAIN host |->
            IF at(host[i].arg) # {}
            THEN Arg(host[i].arg, donor[First(at(host[i].arg))].annotation)
            ELSE host[i]]
        \o SelectSeq(donor, LAMBDA d : d.arg \notin host_names)

\* C9 as stated: after replace the function has the merged parameter list.
C9_MergedParameters ==
    (fnOp = "replace_function" /\ fnOut.exc = None) =>
        fnOut.val.body[1].args = MergedArgs(fnA.args, fnB.args)

\* C9 amended: after replace the function has the donor's parameter list:
\* the donor's parameters, in the donor's order, with the donor's
\* annotations; the keyword-only parameters stay the host's.
C9_DonorParameters ==
    (fnOp = "replace_function" /\ fnOut.exc = None) =>
        /\ fnOut.val.body[1].args = fnB.args
        /\ fnOut.val.body[1].kwonlyargs = fnA.kwonlyargs

\* C9 witness: a splice whose donor lacks a parameter of the host and
\* annotates another one differently.
C9_Witness ==
    /\ fnOp = "replace_function" /\ fnOut.exc = None
    /\ \E i \in DOMAIN fnA.args :
          \A j \in DOMAIN fnB.args : fnB.args[j].arg # fnA.args[i].arg
    /\ \E i \in DOMAIN fnA.args : \E j \in DOMAIN fnB.args :
          /\ fnB.args[j].arg = fnA.args[i].arg
          /\ fnB.args[j].annotation # fnA.args[i].annotation

\* C10: has_docstring is true exactly when the first body statement of the
\* fragment's own function is a string literal with non-empty text.
C10_OwnDocstring ==
    fnOp = "has_docstring" => (fnOut.val <=> HasDocumentation(fnA))

====
